---- MODULE Spec2Model ----
(***************************************************************************)
(* A model of the Bloom filter of src/bloom.c: one BloomFilter struct, the *)
(* heap block its bit array lives in, one file on disk, and one action per *)
(* public function of the library.                                         *)
(*                                                                         *)
(* Numbers.  estimated_elements, elements_added and number_bits are        *)
(* uint64_t in the code; the model keeps them far below 2^31, so no        *)
(* operation of the model reaches a wrap-around.  The doubles of           *)
(* calculate_optimal_hashes are fixed-point numbers in millionths; for     *)
(* every (n, p) of the model the quotients are far enough from the         *)
(* rounding boundaries of ceil() and round() that the fixed-point result   *)
(* is the one the C code computes.                                         *)
(*                                                                         *)
(* Floats.  A float is written in tenths: 5 is 0.5f, -5 is -0.5f, 10 is    *)
(* 1.0f.  Its 4 bytes on disk are those of the IEEE-754 single nearest to  *)
(* the decimal.                                                            *)
(*                                                                         *)
(* Memory.  calloc is taken to succeed; free of a pointer that is neither  *)
(* NULL nor an allocated block is recorded in `fault`.  Callers use a      *)
(* filter between its construction and its teardown: insert, lookup, rate  *)
(* and export are calls on a filter that owns a bit array.                 *)
(*                                                                         *)
(* Files.  The file at GoodPath holds what the last export wrote.          *)
(***************************************************************************)
EXTENDS Integers, Sequences, FiniteSets, TLC

\* ------------------------------------------------------------- bounds
\* the largest estimated_elements a caller passes to bloom_filter_init
MaxElements == 2
\* the largest elements_added the model lets a filter reach
MaxAdded == 2
\* the largest num_hashes passed to md5_hash_default on its own
MaxCount == 4
\* the largest num_bits passed to md5_hash_default on its own
MaxModulus == 16

\* ---------------------------------------------------- program constants
CHAR_LEN == 8
\* 0.4804530139182, in millionths
LOG_TWO_SQUARED == 480453
\* log(2.0) = 0.693147..., in millionths
LOG_TWO == 693147
\* the unit of the fixed-point doubles
Micro == 1000000
SIZEOF_UINT64 == 8
SIZEOF_FLOAT == 4
\* the largest int (the type of num in the false-positive estimate)
INT_MAX == 2147483647
\* 2^16: 32-bit values are computed in two halves of 16 bits
HalfWord == 65536

BLOOM_SUCCESS == "BLOOM_SUCCESS"
BLOOM_FAILURE == "BLOOM_FAILURE"
NULL == "NULL"

\* ------------------------------------------------------------- inputs
\* the strings callers insert and look up
Items == {"alpha", "beta"}
\* estimated_elements arguments: 0 is the rejected one
Elements == 0..MaxElements
\* false_positive_rate arguments, in tenths: -0.5, 0.0, 0.1, 0.9, 1.0, 1.5
Rates == {-5, 0, 1, 9, 10, 15}
\* the heap blocks calloc can hand out.  There is one: a caller constructs
\* (init, import) into a struct that owns no bit array, and a construction
\* over a live filter, which would leak its array, is not followed
Blocks == {"blockA"}
\* file paths: one that can be opened, one that cannot
GoodPath == "filter.blm"
BadPath == "/no/such/dir/filter.blm"
Paths == {GoodPath, BadPath}
\* the content of a path that holds no file
NoFile == <<-1>>

VARIABLES
    estimated_elements,
    elements_added,
    false_positive_probability,
    number_hashes,
    number_bits,
    bloom_length,
    bloom,            \* bf->bloom: NULL or a heap block
    hash_function,    \* bf->hash_function: NULL or the name of a HashFunction
    mem,              \* the bytes of the block bf->bloom points to
    heap,             \* the blocks allocated and not freed
    fault,            \* a free() of a dangling pointer has happened
    file,             \* the bytes of the file at GoodPath, or NoFile
    call,             \* the last call: [op, arg, ret, probes]
    inserted,         \* history: items added since construction / rebind
    exported          \* history: the filter as it was at the last export

bf == <<estimated_elements, elements_added, false_positive_probability,
        number_hashes, number_bits, bloom_length, bloom, hash_function>>
vars == <<estimated_elements, elements_added, false_positive_probability,
          number_hashes, number_bits, bloom_length, bloom, hash_function,
          mem, heap, fault, file, call, inserted, exported>>


\* ------------------------------------------------------- the bit store
\* bit b of a byte
BitOf(byte, b) == (byte \div (2 ^ b)) % 2

\* A[k / 8] & (1 << (k % 8)): non-zero iff the bit is set
check_bit(A, k) == BitOf(A[(k \div 8) + 1], k % 8) * (2 ^ (k % 8))

\* set_bit written with = for |=: the other bits of the byte are lost
set_bit_assign(A, k) == [A EXCEPT ![(k \div 8) + 1] = 2 ^ (k % 8)]

\* A[k / 8] |= (1 << (k % 8))
set_bit(A, k) ==
    [A EXCEPT ![(k \div 8) + 1] =
        IF BitOf(@, k % 8) = 1 THEN @ ELSE @ + (2 ^ (k % 8))]

\* calloc(len, sizeof(char)): len zero bytes
calloc(len) == [i \in 1..len |-> 0]

\* the block calloc returns: one that is not allocated
NewBlock == CHOOSE b \in Blocks : b \notin heap

\* ------------------------------------------------ parameter calculator
\* ceil(a / b) and round(a / b) of non-negative doubles a, b > 0
Ceil(a, b) == (a + b - 1) \div b
Round(a, b) == (2 * a + b) \div (2 * b)

\* -log(p) of the float p, in millionths
NegLog(p) ==
    CASE p = 1 -> 2302585
      [] p = 5 -> 693147
      [] p = 9 -> 105361

\* the sizing with the byte count rounded down
calculate_optimal_hashes_floor(n, p) ==
    LET m == Ceil(n * NegLog(p), LOG_TWO_SQUARED)
        k == Round(LOG_TWO * m, n * Micro)
        num_pos == m \div CHAR_LEN
    IN  [number_hashes |-> k, number_bits |-> m, bloom_length |-> num_pos]

\* the three fields calculate_optimal_hashes sets, from n and p
calculate_optimal_hashes(n, p) ==
    LET m == Ceil(n * NegLog(p), LOG_TWO_SQUARED)
        k == Round(LOG_TWO * m, n * Micro)
        num_pos == Ceil(m, CHAR_LEN)
    IN  [number_hashes |-> k, number_bits |-> m, bloom_length |-> num_pos]

\* ------------------------------------------------------ hash functions
\* the bytes of a string, as a number
StrCode(str) ==
    CASE str = "alpha" -> 1
      [] str = "beta" -> 2

\* MD5_Init / MD5_Update / MD5_Final of openssl: a fixed function of the
\* input bytes.  The digest stands for its first 8 bytes, read as a number.
MD5(input) == (input * 167 + 13) % 251

\* the digest of step i: of the string at i = 0, of the previous digest after
RECURSIVE Digest(_, _)
Digest(i, str) ==
    IF i = 0 THEN MD5(StrCode(str)) ELSE MD5(Digest(i - 1, str))

\* md5_hash_default without the reduction modulo num_bits
md5_hash_default_unreduced(num_hashes, num_bits, str) ==
    [i \in 1..num_hashes |-> Digest(i - 1, str)]

\* results[i] = digest % num_bits, for i = 0 .. num_hashes - 1 (1-based here)
md5_hash_default(num_hashes, num_bits, str) ==
    [i \in 1..num_hashes |-> Digest(i - 1, str) % num_bits]

\* a HashFunction supplied by the caller
user_hash(num_hashes, num_bits, str) ==
    [i \in 1..num_hashes |-> (StrCode(str) * 2 + (i - 1) * 3) % num_bits]

\* the HashFunction values a caller can pass; NULL asks for the default
HashFunctions == {NULL, "user_hash"}

\* bf->hash_function(num_hashes, num_bits, str)
CallHash(hf, num_hashes, num_bits, str) ==
    IF hf = "md5_hash_default"
    THEN md5_hash_default(num_hashes, num_bits, str)
    ELSE user_hash(num_hashes, num_bits, str)

\* the value bloom_filter_set_hash_function stores
set_hash_function(hf) == IF hf = NULL THEN "md5_hash_default" ELSE hf

\* ------------------------------------------------------- insert / query
\* the insert loop run to i < number_hashes - 1: the last hash is not set
RECURSIVE AddLoop_offbyone(_, _, _, _)
AddLoop_offbyone(A, hashes, i, k) ==
    IF i < k - 1
    THEN AddLoop_offbyone(set_bit(A, hashes[i + 1]), hashes, i + 1, k)
    ELSE A

\* for (i = 0; i < number_hashes; i++) set_bit(bloom, hashes[i]);
RECURSIVE AddLoop(_, _, _, _)
AddLoop(A, hashes, i, k) ==
    IF i < k THEN AddLoop(set_bit(A, hashes[i + 1]), hashes, i + 1, k) ELSE A

\* the lookup loop run to i < number_hashes - 1: the last hash is not tested
RECURSIVE CheckLoop_short(_, _, _, _)
CheckLoop_short(A, hashes, i, k) ==
    IF i < k - 1
    THEN IF check_bit(A, hashes[i + 1]) = 0
         THEN [r |-> BLOOM_FAILURE, probes |-> i + 1]
         ELSE CheckLoop_short(A, hashes, i + 1, k)
    ELSE [r |-> BLOOM_SUCCESS, probes |-> i]

\* the loop of bloom_filter_check_string: r, and the bits it looked at
RECURSIVE CheckLoop(_, _, _, _)
CheckLoop(A, hashes, i, k) ==
    IF i < k
    THEN IF check_bit(A, hashes[i + 1]) = 0
         THEN [r |-> BLOOM_FAILURE, probes |-> i + 1]
         ELSE CheckLoop(A, hashes, i + 1, k)
    ELSE [r |-> BLOOM_SUCCESS, probes |-> i]

\* what bloom_filter_check_string(bf, str) finds in the current filter
CheckString(str) ==
    CheckLoop(mem, CallHash(hash_function, number_hashes, number_bits, str),
              0, number_hashes)

\* ---------------------------------------------------------- file format
\* v in `size` bytes, least significant first (fwrite of an integer)
RECURSIVE LEBytes(_, _)
LEBytes(v, size) ==
    IF size = 0 THEN <<>> ELSE <<v % 256>> \o LEBytes(v \div 256, size - 1)

\* the integer in a run of bytes, least significant first (fread)
RECURSIVE LEValue(_)
LEValue(bytes) ==
    IF bytes = <<>> THEN 0 ELSE Head(bytes) + 256 * LEValue(Tail(bytes))

\* the 32 bits of the float p
FloatBits(p) ==
    CASE p = 0 -> 0
      [] p = 1 -> 1036831949
      [] p = 5 -> 1056964608
      [] p = 9 -> 1063675494

\* the float whose 32 bits are b
FloatOfBits(b) == CHOOSE p \in {0, 1, 5, 9} : FloatBits(p) = b

\* the export with the bit array written as number_bits / 8 bytes, rounded
\* down
ExportBytes_floor ==
    LEBytes(estimated_elements, SIZEOF_UINT64)
    \o LEBytes(elements_added, SIZEOF_UINT64)
    \o LEBytes(FloatBits(false_positive_probability), SIZEOF_FLOAT)
    \o SubSeq(mem, 1, number_bits \div CHAR_LEN)

\* the four fwrite calls of bloom_filter_export
ExportBytes ==
    LEBytes(estimated_elements, SIZEOF_UINT64)
    \o LEBytes(elements_added, SIZEOF_UINT64)
    \o LEBytes(FloatBits(false_positive_probability), SIZEOF_FLOAT)
    \o SubSeq(mem, 1, bloom_length)

\* the bytes before the bit array in the file: two uint64_t and a float
HeaderLen == 2 * SIZEOF_UINT64 + SIZEOF_FLOAT

\* a read into a buffer that was not zeroed: the bytes the file lacks are
\* whatever the buffer held, here all ones
ReadInto_ones(f, off, len) ==
    [i \in 1..len |-> IF off + i <= Len(f) THEN f[off + i] ELSE 255]

\* fread(dst, 1, len, fp) at offset off into a zeroed buffer: the bytes the
\* file has, the rest left zero
ReadInto(f, off, len) ==
    [i \in 1..len |-> IF off + i <= Len(f) THEN f[off + i] ELSE 0]

\* -------------------------------------------------------------- calls
\* the record of a call: its name, argument and return value, the number of
\* bits a lookup examined, and whether it is a bloom_filter_destroy that
\* directly follows a bloom_filter_destroy
Call(op, arg, ret, probes) ==
    [op |-> op, arg |-> arg, ret |-> ret, probes |-> probes,
     again |-> (op = "destroy" /\ call.op = "destroy"), open |-> 0]

\* the record of a call on a file: opened is the number of FILE handles its
\* fopen calls returned, closed the number it passed to fclose; the record
\* keeps the number the call left open
FileCall(op, filepath, ret, opened, closed) ==
    [Call(op, filepath, ret, 0) EXCEPT !.open = opened - closed]

\* the filter's persistent content, as bloom_filter_export sees it
Snapshot ==
    [estimated_elements |-> estimated_elements,
     elements_added |-> elements_added,
     false_positive_probability |-> false_positive_probability,
     number_hashes |-> number_hashes,
     number_bits |-> number_bits,
     bloom_length |-> bloom_length,
     mem |-> mem]

\* the filter owns a bit array: it has been constructed and not destroyed
Live == bloom # NULL

\* estimated_elements > UINT64_MAX: false of every uint64_t
GT_UINT64_MAX(n) == FALSE

\* free(ptr) on the heap: what is left allocated, and whether it faulted
free_heap(ptr) == IF ptr = NULL THEN heap ELSE heap \ {ptr}
free_fault(ptr) == fault \/ (ptr # NULL /\ ptr \notin heap)

Init ==
    /\ estimated_elements = 0
    /\ elements_added = 0
    /\ false_positive_probability = 0
    /\ number_hashes = 0
    /\ number_bits = 0
    /\ bloom_length = 0
    /\ bloom = NULL
    /\ hash_function = NULL
    /\ mem = <<>>
    /\ heap = {}
    /\ fault = FALSE
    /\ file = NoFile
    /\ call = [op |-> "none", arg |-> <<>>, ret |-> BLOOM_SUCCESS,
               probes |-> 0, again |-> FALSE, open |-> 0]
    /\ inserted = {}
    /\ exported = [estimated_elements |-> 0, elements_added |-> 0,
                   false_positive_probability |-> 0, number_hashes |-> 0,
                   number_bits |-> 0, bloom_length |-> 0, mem |-> <<>>]

\* an init that resets elements_added before it validates its arguments
bloom_filter_init_early_reset(n, p, hf) ==
    IF n <= 0 \/ GT_UINT64_MAX(n) \/ p <= 0 \/ p >= 10
    THEN /\ elements_added' = 0
         /\ call' = Call("init", <<>>, BLOOM_FAILURE, 0)
         /\ UNCHANGED <<estimated_elements, false_positive_probability,
                        number_hashes, number_bits, bloom_length, bloom,
                        hash_function, mem, heap, fault, file, inserted,
                        exported>>
    ELSE LET c == calculate_optimal_hashes(n, p)
         IN  /\ heap # Blocks
             /\ estimated_elements' = n
             /\ false_positive_probability' = p
             /\ number_hashes' = c.number_hashes
             /\ number_bits' = c.number_bits
             /\ bloom_length' = c.bloom_length
             /\ bloom' = NewBlock
             /\ heap' = heap \cup {NewBlock}
             /\ mem' = calloc(c.bloom_length)
             /\ elements_added' = 0
             /\ hash_function' = set_hash_function(hf)
             /\ inserted' = {}
             /\ call' = Call("init", <<>>, BLOOM_SUCCESS, 0)
             /\ UNCHANGED <<fault, file, exported>>

bloom_filter_init(n, p, hf) ==
    IF n <= 0 \/ GT_UINT64_MAX(n) \/ p <= 0 \/ p >= 10
    THEN /\ call' = Call("init", <<>>, BLOOM_FAILURE, 0)
         /\ UNCHANGED <<bf, mem, heap, fault, file, inserted, exported>>
    ELSE LET c == calculate_optimal_hashes(n, p)
         IN  /\ heap # Blocks
             /\ estimated_elements' = n
             /\ false_positive_probability' = p
             /\ number_hashes' = c.number_hashes
             /\ number_bits' = c.number_bits
             /\ bloom_length' = c.bloom_length
             /\ bloom' = NewBlock
             /\ heap' = heap \cup {NewBlock}
             /\ mem' = calloc(c.bloom_length)
             /\ elements_added' = 0
             /\ hash_function' = set_hash_function(hf)
             /\ inserted' = {}
             /\ call' = Call("init", <<>>, BLOOM_SUCCESS, 0)
             /\ UNCHANGED <<fault, file, exported>>

\* a rebind that also starts the bit array over
bloom_filter_set_hash_function_rehash(hf) ==
    /\ hash_function' = set_hash_function(hf)
    /\ mem' = calloc(Len(mem))
    /\ elements_added' = 0
    /\ inserted' = {}
    /\ call' = Call("set_hash_function", <<>>, BLOOM_SUCCESS, 0)
    /\ UNCHANGED <<estimated_elements, false_positive_probability,
                   number_hashes, number_bits, bloom_length, bloom, heap,
                   fault, file, exported>>

bloom_filter_set_hash_function(hf) ==
    /\ hash_function' = set_hash_function(hf)
    /\ inserted' = IF hash_function' = hash_function THEN inserted ELSE {}
    /\ call' = Call("set_hash_function", <<>>, BLOOM_SUCCESS, 0)
    /\ UNCHANGED <<estimated_elements, elements_added,
                   false_positive_probability, number_hashes, number_bits,
                   bloom_length, bloom, mem, heap, fault, file, exported>>

\* a destroy that frees the bit array and keeps the pointer to it
bloom_filter_destroy_dangling ==
    /\ heap' = free_heap(bloom)
    /\ fault' = free_fault(bloom)
    /\ mem' = <<>>
    /\ elements_added' = 0
    /\ estimated_elements' = 0
    /\ false_positive_probability' = 0
    /\ number_hashes' = 0
    /\ number_bits' = 0
    /\ hash_function' = NULL
    /\ inserted' = {}
    /\ call' = Call("destroy", <<>>, BLOOM_SUCCESS, 0)
    /\ UNCHANGED <<bloom, bloom_length, file, exported>>

bloom_filter_destroy ==
    /\ heap' = free_heap(bloom)
    /\ fault' = free_fault(bloom)
    /\ bloom' = NULL
    /\ mem' = <<>>
    /\ elements_added' = 0
    /\ estimated_elements' = 0
    /\ false_positive_probability' = 0
    /\ number_hashes' = 0
    /\ number_bits' = 0
    /\ hash_function' = NULL
    /\ inserted' = {}
    /\ call' = Call("destroy", <<>>, BLOOM_SUCCESS, 0)
    /\ UNCHANGED <<bloom_length, file, exported>>

\* an insert that counts an item only when it set a new bit
bloom_filter_add_string_dedup(str) ==
    /\ Live
    /\ elements_added < MaxAdded
    /\ mem' = AddLoop(mem, CallHash(hash_function, number_hashes, number_bits,
                                    str), 0, number_hashes)
    /\ elements_added' = IF mem' = mem THEN elements_added
                         ELSE elements_added + 1
    /\ inserted' = inserted \cup {str}
    /\ call' = Call("add_string", str, BLOOM_SUCCESS, 0)
    /\ UNCHANGED <<estimated_elements, false_positive_probability,
                   number_hashes, number_bits, bloom_length, bloom,
                   hash_function, heap, fault, file, exported>>

bloom_filter_add_string(str) ==
    /\ Live
    /\ elements_added < MaxAdded
    /\ mem' = AddLoop(mem, CallHash(hash_function, number_hashes, number_bits,
                                    str), 0, number_hashes)
    /\ elements_added' = elements_added + 1
    /\ inserted' = inserted \cup {str}
    /\ call' = Call("add_string", str, BLOOM_SUCCESS, 0)
    /\ UNCHANGED <<estimated_elements, false_positive_probability,
                   number_hashes, number_bits, bloom_length, bloom,
                   hash_function, heap, fault, file, exported>>

bloom_filter_check_string(str) ==
    /\ Live
    /\ call' = Call("check_string", str, CheckString(str).r,
                    CheckString(str).probes)
    /\ UNCHANGED <<bf, mem, heap, fault, file, inserted, exported>>

\* (int) (k * -1 * a) with k unsigned and a a uint64_t: the low 32 bits of
\* the product -(k * a), read as a two's-complement int.  The low 32 bits of
\* k * a are hi * 2^16 + lo; its negation modulo 2^32 is the int.
IntNum(k, a) ==
    LET al == a % HalfWord
        ah == a \div HalfWord
        lo == (k * al) % HalfWord
        hi == (k * ah + (k * al) \div HalfWord) % HalfWord
    IN  IF hi < HalfWord \div 2
        THEN 0 - (hi * HalfWord + lo)
        ELSE IF hi = HalfWord \div 2 /\ lo = 0
             THEN (0 - INT_MAX) - 1
             ELSE (HalfWord - 1 - hi) * HalfWord + (HalfWord - lo)

\* int num = (bf->number_hashes * -1 * bf->elements_added): the returned
\* float is (1 - exp(num / number_bits)) ^ number_hashes; the call records num
bloom_filter_current_false_positive_rate ==
    /\ Live
    /\ call' = Call("current_false_positive_rate", <<>>,
                    IntNum(number_hashes, elements_added), 0)
    /\ UNCHANGED <<bf, mem, heap, fault, file, inserted, exported>>

bloom_filter_export(filepath) ==
    /\ Live
    /\ IF filepath # GoodPath
       THEN /\ call' = FileCall("export", filepath, BLOOM_FAILURE, 0, 0)
            /\ UNCHANGED <<file, exported>>
       ELSE /\ file' = ExportBytes
            /\ exported' = Snapshot
            /\ call' = FileCall("export", filepath, BLOOM_SUCCESS, 1, 1)
    /\ UNCHANGED <<bf, mem, heap, fault, inserted>>

\* an import that resets the counter before it knows the file opened
bloom_filter_import_early_reset(filepath, hf) ==
    IF filepath # GoodPath \/ file = NoFile
    THEN /\ elements_added' = 0
         /\ call' = FileCall("import", filepath, BLOOM_FAILURE, 0, 0)
         /\ UNCHANGED <<estimated_elements, false_positive_probability,
                        number_hashes, number_bits, bloom_length, bloom,
                        hash_function, mem, heap, fault, file, inserted,
                        exported>>
    ELSE LET n == LEValue(SubSeq(file, 1, SIZEOF_UINT64))
             a == LEValue(SubSeq(file, SIZEOF_UINT64 + 1, 2 * SIZEOF_UINT64))
             p == FloatOfBits(LEValue(SubSeq(file, 2 * SIZEOF_UINT64 + 1,
                                  2 * SIZEOF_UINT64 + SIZEOF_FLOAT)))
             c == calculate_optimal_hashes(n, p)
         IN  /\ heap # Blocks
             /\ estimated_elements' = n
             /\ elements_added' = a
             /\ false_positive_probability' = p
             /\ number_hashes' = c.number_hashes
             /\ number_bits' = c.number_bits
             /\ bloom_length' = c.bloom_length
             /\ bloom' = NewBlock
             /\ heap' = heap \cup {NewBlock}
             /\ mem' = ReadInto(file, 2 * SIZEOF_UINT64 + SIZEOF_FLOAT,
                                c.bloom_length)
             /\ hash_function' = set_hash_function(hf)
             /\ inserted' = {}
             /\ call' = FileCall("import", filepath, BLOOM_SUCCESS, 1, 0)
             /\ UNCHANGED <<fault, file, exported>>

bloom_filter_import(filepath, hf) ==
    IF filepath # GoodPath \/ file = NoFile
    THEN /\ call' = FileCall("import", filepath, BLOOM_FAILURE, 0, 0)
         /\ UNCHANGED <<bf, mem, heap, fault, file, inserted, exported>>
    ELSE LET n == LEValue(SubSeq(file, 1, SIZEOF_UINT64))
             a == LEValue(SubSeq(file, SIZEOF_UINT64 + 1, 2 * SIZEOF_UINT64))
             p == FloatOfBits(LEValue(SubSeq(file, 2 * SIZEOF_UINT64 + 1,
                                  2 * SIZEOF_UINT64 + SIZEOF_FLOAT)))
             c == calculate_optimal_hashes(n, p)
         IN  /\ heap # Blocks
             /\ estimated_elements' = n
             /\ elements_added' = a
             /\ false_positive_probability' = p
             /\ number_hashes' = c.number_hashes
             /\ number_bits' = c.number_bits
             /\ bloom_length' = c.bloom_length
             /\ bloom' = NewBlock
             /\ heap' = heap \cup {NewBlock}
             /\ mem' = ReadInto(file, 2 * SIZEOF_UINT64 + SIZEOF_FLOAT,
                                c.bloom_length)
             /\ hash_function' = set_hash_function(hf)
             /\ inserted' = {}
             /\ call' = FileCall("import", filepath, BLOOM_SUCCESS, 1, 0)
             /\ UNCHANGED <<fault, file, exported>>

\* The file that fopen(filepath, "r+b") finds need not be the one the last
\* export left: something outside the library cuts it short, to its first
\* cut bytes, once the export that wrote it has returned (when it is cut
\* makes no difference to the import that reads it).  The cut keeps the
\* header, so the three header reads of bloom_filter_import are whole and
\* only the read of the bit array is short.
truncate_file(cut) ==
    /\ call.op = "export"
    /\ call.ret = BLOOM_SUCCESS
    /\ file # NoFile
    /\ cut \in HeaderLen..(Len(file) - 1)
    /\ file' = SubSeq(file, 1, cut)
    /\ call' = Call("truncate_file", <<>>, BLOOM_SUCCESS, 0)
    /\ UNCHANGED <<bf, mem, heap, fault, inserted, exported>>

Next ==
    \/ \E n \in Elements, p \in Rates, hf \in HashFunctions :
          bloom_filter_init(n, p, hf)
    \/ \E hf \in HashFunctions : bloom_filter_set_hash_function(hf)
    \/ bloom_filter_destroy
    \/ \E str \in Items : bloom_filter_add_string(str)
    \/ \E str \in Items : bloom_filter_check_string(str)
    \/ bloom_filter_current_false_positive_rate
    \/ \E filepath \in Paths : bloom_filter_export(filepath)
    \/ \E filepath \in Paths, hf \in HashFunctions :
          bloom_filter_import(filepath, hf)

Spec == Init /\ [][Next]_vars

\* The calls that change the filter or the file, together with truncations of
\* the file between them (a file has at most MaxElements bytes of bit array
\* after its header).  The calls left out, bloom_filter_check_string,
\* bloom_filter_current_false_positive_rate and the calls on the unopenable
\* path, change nothing but the record of the last call, so the filters and
\* files reached are those of Next with truncations.
NextTrunc ==
    \/ \E n \in Elements, p \in Rates, hf \in HashFunctions :
          bloom_filter_init(n, p, hf)
    \/ \E hf \in HashFunctions : bloom_filter_set_hash_function(hf)
    \/ bloom_filter_destroy
    \/ \E str \in Items : bloom_filter_add_string(str)
    \/ bloom_filter_export(GoodPath)
    \/ \E hf \in HashFunctions : bloom_filter_import(GoodPath, hf)
    \/ \E cut \in HeaderLen..(HeaderLen + MaxElements) : truncate_file(cut)

SpecTrunc == Init /\ [][NextTrunc]_vars

\* ------------------------------------------ md5_hash_default on its own
\* the num_hashes and num_bits a caller of md5_hash_default passes
HashCounts == 1..MaxCount
Moduli == 1..MaxModulus

\* a caller about to call md5_hash_default(num_hashes, num_bits, str): the
\* arguments are in call.arg, no filter is involved
InitHash ==
    /\ estimated_elements = 0
    /\ elements_added = 0
    /\ false_positive_probability = 0
    /\ number_hashes = 0
    /\ number_bits = 0
    /\ bloom_length = 0
    /\ bloom = NULL
    /\ hash_function = NULL
    /\ mem = <<>>
    /\ heap = {}
    /\ fault = FALSE
    /\ file = NoFile
    /\ \E num_hashes \in HashCounts, num_bits \in Moduli, str \in Items :
           call = [op |-> "none", arg |-> <<num_hashes, num_bits, str>>,
                   ret |-> BLOOM_SUCCESS, probes |-> 0, again |-> FALSE,
                   open |-> 0]
    /\ inserted = {}
    /\ exported = [estimated_elements |-> 0, elements_added |-> 0,
                   false_positive_probability |-> 0, number_hashes |-> 0,
                   number_bits |-> 0, bloom_length |-> 0, mem |-> <<>>]

\* the call returns the results array
md5_hash_default_call ==
    /\ call.op = "none"
    /\ call' = Call("md5_hash_default", call.arg,
                    md5_hash_default(call.arg[1], call.arg[2], call.arg[3]),
                    0)
    /\ UNCHANGED <<bf, mem, heap, fault, file, inserted, exported>>

NextHash == md5_hash_default_call

HashSpec == InitHash /\ [][NextHash]_vars

\* --------------------------------------- a filter after very many inserts
\* numbers of inserts around the one at which 3 * elements_added passes
\* INT_MAX, and the largest the model can hold
LargeCounts == {INT_MAX \div 3, INT_MAX \div 3 + 1, INT_MAX}

\* the filter after bloom_filter_init(&bf, 1, 0.1f, NULL) and a count of
\* bloom_filter_add_string(&bf, "alpha") calls: each call sets the same bits
\* and adds one to elements_added
InitRate ==
    LET c == calculate_optimal_hashes(1, 1)
    IN  /\ estimated_elements = 1
        /\ elements_added \in LargeCounts
        /\ false_positive_probability = 1
        /\ number_hashes = c.number_hashes
        /\ number_bits = c.number_bits
        /\ bloom_length = c.bloom_length
        /\ bloom = CHOOSE b \in Blocks : TRUE
        /\ hash_function = set_hash_function(NULL)
        /\ mem = AddLoop(calloc(c.bloom_length),
                         md5_hash_default(c.number_hashes, c.number_bits,
                                          "alpha"),
                         0, c.number_hashes)
        /\ heap = {CHOOSE b \in Blocks : TRUE}
        /\ fault = FALSE
        /\ file = NoFile
        /\ call = [op |-> "add_string", arg |-> "alpha",
                   ret |-> BLOOM_SUCCESS, probes |-> 0, again |-> FALSE,
                   open |-> 0]
        /\ inserted = {"alpha"}
        /\ exported = [estimated_elements |-> 0, elements_added |-> 0,
                       false_positive_probability |-> 0, number_hashes |-> 0,
                       number_bits |-> 0, bloom_length |-> 0, mem |-> <<>>]

SpecRate == InitRate /\ [][Next]_vars

\* ============================================================== claims
\* whether bit idx of the bit array A is 1
BitSet(A, idx) == check_bit(A, idx) # 0

\* the lookup result of str in a filter with bit array A and sizing c, under
\* the hash function hf
Lookup(A, hf, c, str) ==
    CheckLoop(A, CallHash(hf, c.number_hashes, c.number_bits, str),
              0, c.number_hashes).r

\* C1: no false negatives.  In a constructed filter every item added since
\* construction, with the hash function unchanged since, is reported present
\* by bloom_filter_check_string, both as the function computes it and as the
\* last call returned it.
C1_NoFalseNegatives ==
    Live =>
        /\ \A x \in inserted : CheckString(x).r = BLOOM_SUCCESS
        /\ (call.op = "check_string" /\ call.arg \in inserted)
               => call.ret = BLOOM_SUCCESS

\* C1 witness: a lookup of an inserted item, after both items were inserted
\* into a filter with several hashes, returned present
C1_Witness ==
    /\ call.op = "check_string"
    /\ inserted = Items
    /\ call.arg \in inserted
    /\ number_hashes > 1
    /\ call.ret = BLOOM_SUCCESS

\* C2: monotonic bits.  Every step on a filter that stays constructed keeps
\* each 1-bit of the bit array at 1, and an insert keeps every item that was
\* reported present reported present.
C2_MonotonicBits ==
    [][(Live /\ Live') =>
         /\ mem' # mem =>
                \A idx \in 0..(CHAR_LEN * bloom_length - 1) :
                    BitSet(mem, idx) => BitSet(mem', idx)
         /\ call'.op = "add_string" =>
                \A x \in Items :
                    CheckString(x).r = BLOOM_SUCCESS
                        => CheckString(x)'.r = BLOOM_SUCCESS]_vars

\* C2 witness: after a second insert the bit array holds more 1-bits than
\* one insert sets
C2_Witness ==
    /\ call.op = "add_string"
    /\ elements_added = 2
    /\ Cardinality({idx \in 0..(CHAR_LEN * bloom_length - 1) :
                       BitSet(mem, idx)}) > number_hashes

\* C3: round-trip persistence.  After a successful import the filter has the
\* estimated_elements, elements_added, false_positive_probability,
\* number_bits, number_hashes, bloom_length and bit array it had at the
\* export that wrote the file, and under the current hash function every
\* item's lookup gives what it gave on the exported filter.
C3_RoundTrip ==
    (call.op = "import" /\ call.ret = BLOOM_SUCCESS) =>
        /\ Snapshot = exported
        /\ \A x \in Items :
               CheckString(x).r = Lookup(exported.mem, hash_function, exported, x)

\* C3 witness: a filter of two bytes with two items added was imported
C3_Witness ==
    /\ call.op = "import"
    /\ call.ret = BLOOM_SUCCESS
    /\ elements_added = 2
    /\ bloom_length = 2
    /\ \E idx \in 8..15 : BitSet(mem, idx)

\* the step is a rejected bloom_filter_init: it returned BLOOM_FAILURE,
\* changed no field of the filter and allocated nothing
InitRejected ==
    /\ call'.op = "init"
    /\ call'.ret = BLOOM_FAILURE
    /\ UNCHANGED <<bf, mem, heap>>

\* C4: boundary rejection.  bloom_filter_init with estimated_elements = 0, or
\* a false_positive_rate <= 0 or >= 1, returns BLOOM_FAILURE, changes no
\* field of the filter and allocates nothing: every step of
\* bloom_filter_init is a rejected one, or is no bloom_filter_init with such
\* arguments.
C4_BoundaryRejection ==
    [][call'.op = "init" =>
       InitRejected \/
       \A n \in Elements, p \in Rates, hf \in HashFunctions :
           (n = 0 \/ p <= 0 \/ p >= 10) => ~bloom_filter_init(n, p, hf)]_vars

\* C4 witness: a constructed filter with an item in it has had a
\* bloom_filter_init rejected
C4_Witness ==
    /\ call.op = "init"
    /\ call.ret = BLOOM_FAILURE
    /\ Live
    /\ elements_added > 0

\* C5: positive sizing.  After a successful init or import, number_hashes > 0
\* and number_bits > 0.
C5_PositiveSizing ==
    (call.op \in {"init", "import"} /\ call.ret = BLOOM_SUCCESS) =>
        (number_hashes > 0 /\ number_bits > 0)

\* C6: teardown is idempotent.  A bloom_filter_destroy that follows a
\* bloom_filter_destroy frees nothing twice and leaves the filter, the bit
\* array and the heap as the first call left them.
C6_DestroyIdempotent ==
    [][(call.op = "destroy" /\ call'.op = "destroy") =>
          (~fault' /\ UNCHANGED <<bf, mem, heap, fault>>)]_vars

\* C6 witness: a filter that was constructed has been destroyed twice in a row
C6_Witness ==
    /\ call.op = "destroy"
    /\ call.again
    /\ bloom_length > 0
    /\ ~fault

\* C7: after bloom_filter_destroy the bit array is released and every scalar
\* field is zero, bloom_length included.
C7_DestroyZeroesAll ==
    call.op = "destroy" =>
        /\ bloom = NULL
        /\ heap = {}
        /\ estimated_elements = 0
        /\ false_positive_probability = 0
        /\ number_bits = 0
        /\ number_hashes = 0
        /\ bloom_length = 0
        /\ elements_added = 0

\* C8: insert always succeeds and counts.  Every step of
\* bloom_filter_add_string returns BLOOM_SUCCESS and adds exactly 1 to
\* elements_added, and no step on a filter that stays constructed lowers
\* elements_added.
C8_InsertCounts ==
    [][/\ call'.op = "add_string" =>
             /\ call'.ret = BLOOM_SUCCESS
             /\ elements_added' = elements_added + 1
       /\ (Live /\ Live') => elements_added' >= elements_added]_vars

\* C8 witness: an insert into a filter that already held estimated_elements
\* items
C8_Witness ==
    /\ call.op = "add_string"
    /\ call.ret = BLOOM_SUCCESS
    /\ elements_added > estimated_elements

\* C9: bloom_filter_check_string returns BLOOM_SUCCESS iff every one of the
\* number_hashes bits of the item is 1, and on BLOOM_FAILURE it stopped at
\* the first bit that is 0.
C9_CheckIffAllBits ==
    call.op = "check_string" =>
        LET hashes == CallHash(hash_function, number_hashes, number_bits,
                               call.arg)
        IN  /\ call.ret = BLOOM_SUCCESS <=>
                   \A i \in 1..number_hashes : BitSet(mem, hashes[i])
            /\ call.ret \in {BLOOM_SUCCESS, BLOOM_FAILURE}
            /\ call.ret = BLOOM_FAILURE =>
                   /\ call.probes \in 1..number_hashes
                   /\ ~BitSet(mem, hashes[call.probes])
                   /\ \A j \in 1..(call.probes - 1) : BitSet(mem, hashes[j])

\* C9 witness: a lookup found some of the item's bits set and then one unset
C9_Witness ==
    /\ call.op = "check_string"
    /\ call.ret = BLOOM_FAILURE
    /\ call.probes > 1

\* C10: frame.  check_string, current_false_positive_rate, export and
\* set_hash_function leave the bit array and elements_added as they were; a
\* step that changes the bit array of a filter that stays constructed is an
\* add_string; and only init, import and destroy change estimated_elements,
\* false_positive_probability, number_bits, number_hashes or bloom_length.
C10_Frame ==
    [][/\ call'.op \in {"check_string", "current_false_positive_rate",
                        "export", "set_hash_function"}
             => UNCHANGED <<mem, bloom, elements_added>>
       /\ (Live /\ Live' /\ mem' # mem) => call'.op = "add_string"
       /\ call'.op \notin {"init", "import", "destroy"}
             => UNCHANGED <<estimated_elements, false_positive_probability,
                            number_bits, number_hashes, bloom_length>>]_vars

\* C10 witness: the hash function of a filter with items in it was rebound
\* to the caller's
C10_Witness ==
    /\ call.op = "set_hash_function"
    /\ hash_function = "user_hash"
    /\ Live
    /\ elements_added > 0
    /\ \E idx \in 0..(CHAR_LEN * bloom_length - 1) : BitSet(mem, idx)

\* C11: unopenable file.  A bloom_filter_export or bloom_filter_import whose
\* path cannot be opened (and an import of a path that holds no file) returns
\* BLOOM_FAILURE in that one step and leaves every field of the filter, the
\* bit array, the heap and the file as they were.
C11_UnopenableFile ==
    [][(\/ call'.op \in {"export", "import"} /\ call'.arg = BadPath
        \/ call'.op = "import" /\ file = NoFile) =>
           /\ call'.ret = BLOOM_FAILURE
           /\ UNCHANGED <<bf, mem, heap, file>>]_vars

\* C11 witness: an import from the unopenable path has failed on a
\* constructed filter with an item in it
C11_Witness ==
    /\ call.op = "import"
    /\ call.arg = BadPath
    /\ call.ret = BLOOM_FAILURE
    /\ Live
    /\ elements_added > 0

\* the indices the filter's hash function gives for str
Hashes(str) == CallHash(hash_function, number_hashes, number_bits, str)

\* C12: storage sizing.  In every constructed filter (after a successful
\* bloom_filter_init or bloom_filter_import) bloom_length is the least number
\* of bytes that holds number_bits bits, the bit array has that many bytes,
\* every index in [0, number_bits) lies in a byte of the array, and every
\* index the hash function produces for an item is in [0, number_bits).
C12_StorageSizing ==
    Live =>
        /\ CHAR_LEN * bloom_length >= number_bits
        /\ CHAR_LEN * (bloom_length - 1) < number_bits
        /\ Len(mem) = bloom_length
        /\ \A idx \in 0..(number_bits - 1) : (idx \div 8) + 1 \in DOMAIN mem
        /\ \A x \in Items : \A i \in 1..number_hashes :
               /\ Hashes(x)[i] \in 0..(number_bits - 1)
               /\ (Hashes(x)[i] \div 8) + 1 \in DOMAIN mem

\* C12 witness: an insert has set a bit in the last byte of a bit array of
\* more than one byte whose last byte is only partly used
C12_Witness ==
    /\ Live
    /\ call.op = "add_string"
    /\ bloom_length > 1
    /\ number_bits % CHAR_LEN # 0
    /\ \E x \in inserted : \E i \in 1..number_hashes :
           Hashes(x)[i] \div 8 = bloom_length - 1

\* C16: definitely absent on an empty filter.  Directly after a successful
\* bloom_filter_init, before any insert, bloom_filter_check_string reports
\* every item absent (BLOOM_FAILURE).
C16_AbsentOnEmpty ==
    (call.op = "init" /\ call.ret = BLOOM_SUCCESS) =>
        /\ elements_added = 0
        /\ \A i \in DOMAIN mem : mem[i] = 0
        /\ \A x \in Items : CheckString(x).r = BLOOM_FAILURE

\* C17: no file handle outlives a persistence call.  When bloom_filter_export
\* or bloom_filter_import returns, on success or failure, every FILE the call
\* opened has been closed.
C17_NoOpenHandle ==
    call.op \in {"export", "import"} => call.open = 0

\* C14: a truncated import is reported as success.  A bloom_filter_import of
\* an openable file that has its header but ends before all bloom_length
\* bytes of the bit array returns BLOOM_SUCCESS, with the sizing and counters
\* of the exported filter, the bytes the file has, and zero in every byte the
\* file lacks.
C14_TruncatedImport ==
    [][(/\ call'.op = "import"
        /\ call'.arg = GoodPath
        /\ file # NoFile
        /\ Len(file) < HeaderLen + exported.bloom_length) =>
           /\ call'.ret = BLOOM_SUCCESS
           /\ estimated_elements' = exported.estimated_elements
           /\ elements_added' = exported.elements_added
           /\ number_hashes' = exported.number_hashes
           /\ number_bits' = exported.number_bits
           /\ bloom_length' = exported.bloom_length
           /\ Len(mem') = exported.bloom_length
           /\ \A i \in 1..exported.bloom_length :
                  mem'[i] = IF HeaderLen + i <= Len(file)
                            THEN exported.mem[i]
                            ELSE 0]_vars

\* C14 witness: a truncated file was imported with success, and an item that
\* the exported filter held (it had elements added, and the item tested
\* present in it under the hash function now in use) tests absent
C14_Witness ==
    /\ call.op = "import"
    /\ call.ret = BLOOM_SUCCESS
    /\ Len(file) < HeaderLen + bloom_length
    /\ exported.elements_added > 0
    /\ number_hashes > 0
    /\ \E x \in Items :
           /\ Lookup(exported.mem, hash_function, exported, x) = BLOOM_SUCCESS
           /\ CheckString(x).r = BLOOM_FAILURE

\* C13: the default hash adapter.  md5_hash_default(count, modulus, item) with
\* count >= 1 and modulus >= 1 returns exactly count indices, each in
\* [0, modulus); the first is the digest of the item reduced modulo modulus
\* and each later one is the digest of the previous step's digest, reduced
\* modulo modulus, so the sequence is a function of (count, modulus, item)
\* alone and a shorter call returns a prefix of a longer one.
C13_DefaultHash ==
    call.op = "md5_hash_default" =>
        LET count == call.arg[1]
            modulus == call.arg[2]
            item == call.arg[3]
            results == call.ret
        IN  /\ DOMAIN results = 1..count
            /\ \A i \in 1..count : results[i] \in 0..(modulus - 1)
            /\ results[1] = MD5(StrCode(item)) % modulus
            /\ \A i \in 2..count :
                   results[i] = MD5(Digest(i - 2, item)) % modulus
            /\ \A shorter \in 1..count : \A i \in 1..shorter :
                   md5_hash_default(shorter, modulus, item)[i] = results[i]

\* C13 witness: a call for several indices returned, with a modulus that
\* reduces a digest and indices that differ
C13_Witness ==
    /\ call.op = "md5_hash_default"
    /\ call.arg[1] >= 3
    /\ call.arg[2] >= 2
    /\ \E i \in 1..call.arg[1] : Digest(i - 1, call.arg[3]) >= call.arg[2]
    /\ \E i, j \in 1..call.arg[1] : call.ret[i] # call.ret[j]

\* C15: the false-positive estimate uses the live values.  The numerator
\* bloom_filter_current_false_positive_rate computes is exactly
\* -(number_hashes * elements_added): it is never positive, it is 0 when
\* elements_added is 0, and divided by number_hashes it gives -elements_added
\* with no remainder.
C15_ExactNumerator ==
    call.op = "current_false_positive_rate" =>
        /\ call.ret <= 0
        /\ elements_added = 0 => call.ret = 0
        /\ number_hashes = 0 => call.ret = 0
        /\ number_hashes > 0 =>
               /\ call.ret % number_hashes = 0
               /\ call.ret \div number_hashes = 0 - elements_added

====
